---- MODULE Spec2Model ----
(***************************************************************************)
(* git-bars (gitbars/gitbars.py): one run of main().                       *)
(*                                                                         *)
(* The run is a linear pipeline                                            *)
(*     get_log -> filter -> get_scores -> summary / message -> print_bars  *)
(* and the model takes one step per call main() makes.                     *)
(*                                                                         *)
(* Text is modelled by its structure:                                      *)
(*   - the output of 'git log' is the sequence of its lines ("" is <<>>);  *)
(*   - a line is the number of its '|' separated fields, its first field   *)
(*     (the timestamp) and its second field (the author);                  *)
(*   - a timestamp "YYYY-MM-DD HH:MM:SS +ZZZZ" is [ok, y, m, d, t], t the  *)
(*     time of day; ok = FALSE is a first field that is no timestamp;      *)
(*   - an author is the sequence of its characters;                        *)
(*   - a label (a prefix of the timestamp, or "%Y/%V") is the tuple of the *)
(*     numbers it prints, which are zero padded in the code, so that the   *)
(*     string order of the code is the lexicographic order of the tuples.  *)
(* ANSI colour codes are not part of a row; the weekend flag that selects  *)
(* the highlight is.                                                       *)
(***************************************************************************)
EXTENDS Integers, Sequences, FiniteSets, TLC

VARIABLES
    src,          \* what check_output gives: [ok, lines]
    periodicity,  \* args.periodicity
    author,       \* args.author
    reverse,      \* args.reverse
    pc,           \* position of main()
    items,        \* main's items (the records of get_log)
    filtered,     \* main's filtered (ordered mapping, as a sequence of buckets)
    scores,       \* main's scores
    current_date, \* print_bars' current_date (<<>> outside its day loop)
    out           \* what was written to stdout, in order

vars == <<src, periodicity, author, reverse, pc, items, filtered, scores, current_date, out>>

(***************************************************************************)
(* Bounds and inputs                                                       *)
(***************************************************************************)
MaxLines == 3

Periodicities == {"day", "week", "month", "year"}

TS(y, m, d, t) == [ok |-> TRUE, y |-> y, m |-> m, d |-> d, t |-> t]
BadTS == [ok |-> FALSE, y |-> 0, m |-> 0, d |-> 0, t |-> 0]

AuthorXA == <<"x", "a">>
AuthorB == <<"b">>

Line(n, ts, a) == [nf |-> n, timestamp |-> ts, author |-> a]

\* the lines a log may hold: commits around the 2018/2019 year boundary and
\* in the first week of 2018, by two authors; a line without '|'; a line
\* whose first field is no timestamp
Lines ==
    { Line(2, TS(2018, 1, 1, 0), AuthorXA),
      Line(2, TS(2018, 12, 30, 0), AuthorB),
      Line(2, TS(2018, 12, 31, 0), AuthorXA),
      Line(2, TS(2018, 12, 31, 1), AuthorB),
      Line(2, TS(2019, 1, 2, 0), AuthorXA),
      Line(1, BadTS, <<>>),
      Line(2, BadTS, AuthorXA) }

AuthorFilters == { <<>>, <<"a">> }

RECURSIVE SeqsUpTo(_, _)
SeqsUpTo(S, n) ==
    IF n = 0 THEN { <<>> }
    ELSE LET shorter == SeqsUpTo(S, n - 1)
         IN shorter \cup { Append(s, x) : s \in { q \in shorter : Len(q) = n - 1 }, x \in S }

(***************************************************************************)
(* Calendar: what datetime.strptime(..).weekday(), strftime("%A"),         *)
(* strftime("%Y/%V") and date + timedelta(days=1) compute                  *)
(***************************************************************************)
IsLeap(y) == (y % 4 = 0) /\ ((y % 100 # 0) \/ (y % 400 = 0))

DaysInMonth(y, m) ==
    IF m = 2 THEN (IF IsLeap(y) THEN 29 ELSE 28)
    ELSE IF m \in {4, 6, 9, 11} THEN 30 ELSE 31

RECURSIVE DaysBeforeMonth(_, _)
DaysBeforeMonth(y, m) ==
    IF m <= 1 THEN 0 ELSE DaysBeforeMonth(y, m - 1) + DaysInMonth(y, m - 1)

\* day of the year, 1..366
YDay(ts) == DaysBeforeMonth(ts.y, ts.m) + ts.d

\* date.toordinal(): 0001-01-01 is day 1
Ordinal(ts) ==
    LET p == ts.y - 1
    IN  p * 365 + (p \div 4) - (p \div 100) + (p \div 400) + YDay(ts)

\* date.weekday(): Monday is 0, Sunday is 6
Weekday(ts) == (Ordinal(ts) + 6) % 7

DayName(ts) ==
    <<"Monday", "Tuesday", "Wednesday", "Thursday", "Friday", "Saturday", "Sunday">>[Weekday(ts) + 1]

\* number of ISO weeks of year y: 53 when Jan 1 is a Thursday, or a Wednesday
\* in a leap year
WeeksInYear(y) ==
    LET jan1 == Weekday(TS(y, 1, 1, 0))
    IN  IF jan1 = 3 \/ (jan1 = 2 /\ IsLeap(y)) THEN 53 ELSE 52

\* strftime("%V"): the ISO 8601 week number of the date
ISOWeek(ts) ==
    LET w == (YDay(ts) - (Weekday(ts) + 1) + 10) \div 7
    IN  IF w < 1 THEN WeeksInYear(ts.y - 1)
        ELSE IF w > WeeksInYear(ts.y) THEN 1
        ELSE w

\* curr_date + datetime.timedelta(days=1), formatted back as a day label
NextDay(lab) ==
    IF lab[3] < DaysInMonth(lab[1], lab[2]) THEN <<lab[1], lab[2], lab[3] + 1>>
    ELSE IF lab[2] < 12 THEN <<lab[1], lab[2] + 1, 1>>
    ELSE <<lab[1] + 1, 1, 1>>

\* datetime.strptime(label, "%Y-%m-%d") of a day label
DateOf(lab) == TS(lab[1], lab[2], lab[3], 0)

\* str <= str on labels of equal length
RECURSIVE LabelLeq(_, _)
LabelLeq(a, b) ==
    IF a = <<>> \/ b = <<>> THEN a = <<>>
    ELSE IF Head(a) # Head(b) THEN Head(a) < Head(b)
    ELSE LabelLeq(Tail(a), Tail(b))

(***************************************************************************)
(* get_log                                                                 *)
(***************************************************************************)
\* str.split("\n"): the empty output is one empty line
SplitLines(lines) == IF lines = <<>> THEN << Line(1, BadTS, <<>>) >> ELSE lines

\* c = o.split("|"); c[1] raises IndexError on a line without '|'
RaisesIndexError(lines) == \E i \in 1..Len(lines) : lines[i].nf < 2

ParseLine(o) == [timestamp |-> o.timestamp, author |-> o.author]

ReverseSeq(s) == [i \in 1..Len(s) |-> s[Len(s) + 1 - i]]

\* items.reverse(), whatever reverse is
OrderedAlwaysReversed(recs, rev) == ReverseSeq(recs)

\* if reverse: items.reverse()
Ordered(recs, rev) == IF rev THEN ReverseSeq(recs) ELSE recs

get_log(source, rev) ==
    LET lines == SplitLines(source.lines)
        parsed == [i \in 1..Len(lines) |-> ParseLine(lines[i])]
    IN  IF ~source.ok \/ RaisesIndexError(lines)
        THEN [raised |-> TRUE, items |-> <<>>]
        ELSE [raised |-> FALSE, items |-> Ordered(parsed, rev)]

(***************************************************************************)
(* filter                                                                  *)
(***************************************************************************)
\* the period label p of a record
Label(ts, per) ==
    IF per = "week" THEN <<ts.y, ISOWeek(ts)>>
    ELSE IF per = "month" THEN <<ts.y, ts.m>>
    ELSE IF per = "year" THEN <<ts.y>>
    ELSE <<ts.y, ts.m, ts.d>>

\* strptime raises ValueError on a first field that is no date; it is called
\* for week and for day only, and before the author is looked at
RaisesValueError(ts, per) == per \in {"week", "day"} /\ ~ts.ok

IsWeekend(ts, per) ==
    IF per \in {"week", "month", "year"} THEN FALSE ELSE Weekday(ts) > 4

\* sub in s, for strings
RECURSIVE StrContainsFrom(_, _, _)
StrContainsFrom(sub, s, i) ==
    IF i + Len(sub) - 1 > Len(s) THEN FALSE
    ELSE IF SubSeq(s, i, i + Len(sub) - 1) = sub THEN TRUE
    ELSE StrContainsFrom(sub, s, i + 1)

StrContains(sub, s) == StrContainsFrom(sub, s, 1)

\* author != "" and author != i["author"]
SkippedUnlessEqual(rec, auth) == auth # <<>> /\ auth # rec.author

\* the record is skipped: author != "" and author not in i["author"]
Skipped(rec, auth) == auth # <<>> /\ ~StrContains(auth, rec.author)

LabelsOf(bars) == [k \in 1..Len(bars) |-> bars[k].label]

HasLabel(bars, p) == \E k \in 1..Len(bars) : bars[k].label = p

\* a new bucket goes to the front of the mapping
WithBucketInFront(bars, p, rec, per) ==
    IF HasLabel(bars, p) THEN bars
    ELSE <<[label |-> p, timestamp |-> rec.timestamp,
            commits |-> 0, weekend |-> IsWeekend(rec.timestamp, per)]>> \o bars

\* if p not in bars: bars[p] = {...}
WithBucket(bars, p, rec, per) ==
    IF HasLabel(bars, p) THEN bars
    ELSE Append(bars, [label |-> p, timestamp |-> rec.timestamp,
                       commits |-> 0, weekend |-> IsWeekend(rec.timestamp, per)])

\* bars[p]["commits"] = 1
IncrementAssigns(bars, p) ==
    [k \in 1..Len(bars) |->
        IF bars[k].label = p THEN [bars[k] EXCEPT !.commits = 1] ELSE bars[k]]

\* bars[p]["commits"] += 1
Increment(bars, p) ==
    [k \in 1..Len(bars) |->
        IF bars[k].label = p THEN [bars[k] EXCEPT !.commits = @ + 1] ELSE bars[k]]

\* one iteration of the loop of filter
FilterStep(bars, rec, per, auth) ==
    LET p == Label(rec.timestamp, per)
    IN  IF Skipped(rec, auth) THEN bars
        ELSE Increment(WithBucket(bars, p, rec, per), p)

RECURSIVE FilterFrom(_, _, _, _, _)
FilterFrom(bars, recs, i, per, auth) ==
    IF i > Len(recs) THEN bars
    ELSE FilterFrom(FilterStep(bars, recs[i], per, auth), recs, i + 1, per, auth)

filter(recs, per, auth) ==
    IF \E i \in 1..Len(recs) : RaisesValueError(recs[i].timestamp, per)
    THEN [raised |-> TRUE, bars |-> <<>>]
    ELSE [raised |-> FALSE, bars |-> FilterFrom(<<>>, recs, 1, per, auth)]

(***************************************************************************)
(* get_scores, normalize                                                   *)
(***************************************************************************)
\* a score is the quotient num / den of two floats holding integers
\* float(x - xmin) / float(xmax - xmin); den = 0 raises ZeroDivisionError
normalize(x, xmin, xmax) == [num |-> x - xmin, den |-> xmax - xmin]

\* vals without vals.append(0)
ScoreValsNoZero(bars) == [k \in 1..Len(bars) |-> bars[k].commits]

\* vals = [items[i]["commits"] for i in items]; vals.append(0)
ScoreVals(bars) == Append([k \in 1..Len(bars) |-> bars[k].commits], 0)

RECURSIVE SeqMin(_)
SeqMin(s) ==
    IF Len(s) = 1 THEN s[1]
    ELSE LET m == SeqMin(Tail(s)) IN IF s[1] <= m THEN s[1] ELSE m

RECURSIVE SeqMax(_)
SeqMax(s) ==
    IF Len(s) = 1 THEN s[1]
    ELSE LET m == SeqMax(Tail(s)) IN IF s[1] >= m THEN s[1] ELSE m

\* out[i] = items[i]; out[i]["score"] = normalize(..): the score lands in
\* the bucket of items too
ScoreEntryInPlace(b, xmin, xmax) ==
    LET scored == [label |-> b.label, timestamp |-> b.timestamp, commits |-> b.commits,
                   weekend |-> b.weekend, score |-> normalize(b.commits, xmin, xmax)]
    IN  [entry |-> scored, dst |-> scored]

\* out[i] = items[i].copy(); out[i]["score"] = normalize(..): the entry of
\* out (dst) and what the statement leaves in items[i] (entry)
ScoreEntry(b, xmin, xmax) ==
    [entry |-> b,
     dst |-> [label |-> b.label, timestamp |-> b.timestamp, commits |-> b.commits,
              weekend |-> b.weekend, score |-> normalize(b.commits, xmin, xmax)]]

get_scores(bars) ==
    LET vals == ScoreVals(bars)
        xmin == SeqMin(vals)
        xmax == SeqMax(vals)
        res == [k \in 1..Len(bars) |-> ScoreEntry(bars[k], xmin, xmax)]
    IN  IF \E k \in 1..Len(bars) : res[k].dst.score.den = 0
        THEN [raised |-> TRUE, out |-> <<>>, items |-> bars]
        ELSE [raised |-> FALSE,
              out |-> [k \in 1..Len(bars) |-> res[k].dst],
              items |-> [k \in 1..Len(bars) |-> res[k].entry]]

(***************************************************************************)
(* print_bars                                                              *)
(***************************************************************************)
Find(bars, p) == CHOOSE k \in 1..Len(bars) : bars[k].label = p

BlankLine == [kind |-> "blank"]

\* the row of the day current_date, with the blank line that follows a Sunday
DayRow(bars, current) ==
    LET present == HasLabel(bars, current)
        row == [kind |-> "row",
                label |-> current,
                day |-> DayName(DateOf(current)),
                num |-> IF present THEN bars[Find(bars, current)].commits ELSE 0,
                weekend |-> present /\ bars[Find(bars, current)].weekend,
                score |-> IF present THEN bars[Find(bars, current)].score
                          ELSE [num |-> 0, den |-> 1]]
    IN  IF DayName(DateOf(current)) = "Sunday" THEN <<row, BlankLine>> ELSE <<row>>

\* for i in items: ...
BucketRow(b) ==
    [kind |-> "row", label |-> b.label, num |-> b.commits,
     weekend |-> b.weekend, score |-> b.score]

\* the else branch of print_bars: one row per bucket, in the mapping's order
BucketRows(bars) == [k \in 1..Len(bars) |-> BucketRow(bars[k])]

\* first_date = next(iter(items)); last_date = next(reversed(items))
FirstDate(bars) == bars[1].label
LastDate(bars) == bars[Len(bars)].label

\* while current_date <= first_date
InDayLoop(bars, current) == LabelLeq(current, FirstDate(bars))

(***************************************************************************)
(* main                                                                    *)
(***************************************************************************)
RECURSIVE SumCommits(_)
SumCommits(bars) ==
    IF bars = <<>> THEN 0 ELSE Head(bars).commits + SumCommits(Tail(bars))

\* "%d commits over %d %s(s)"
SummaryLine(unscored, scored, per) ==
    [kind |-> "summary", total |-> SumCommits(unscored), n |-> Len(scored), per |-> per]

GitLogError == [kind |-> "message", text |-> "error running 'git log'"]
NoCommits == [kind |-> "message", text |-> "No commits to plot"]

Init ==
    /\ src \in { [ok |-> FALSE, lines |-> <<>>] }
                \cup { [ok |-> TRUE, lines |-> s] : s \in SeqsUpTo(Lines, MaxLines) }
    /\ periodicity \in Periodicities
    /\ author \in AuthorFilters
    /\ reverse \in BOOLEAN
    /\ pc = "start"
    /\ items = <<>>
    /\ filtered = <<>>
    /\ scores = <<>>
    /\ current_date = <<>>
    /\ out = <<>>

\* try: items = get_log(..) except Exception: print(..); return
GetLog ==
    /\ pc = "start"
    /\ LET r == get_log(src, reverse)
       IN  IF r.raised
           THEN /\ pc' = "error"
                /\ out' = Append(out, GitLogError)
                /\ UNCHANGED items
           ELSE /\ pc' = "logged"
                /\ items' = r.items
                /\ UNCHANGED out
    /\ UNCHANGED <<src, periodicity, author, reverse, filtered, scores, current_date>>

\* filtered = filter(items, args.periodicity, args.author)
Filter ==
    /\ pc = "logged"
    /\ LET r == filter(items, periodicity, author)
       IN  IF r.raised
           THEN /\ pc' = "crashed"
                /\ UNCHANGED filtered
           ELSE /\ pc' = "filtered"
                /\ filtered' = r.bars
    /\ UNCHANGED <<src, periodicity, author, reverse, items, scores, current_date, out>>

\* scores = get_scores(filtered)
GetScores ==
    /\ pc = "filtered"
    /\ LET r == get_scores(filtered)
       IN  IF r.raised
           THEN /\ pc' = "crashed"
                /\ UNCHANGED <<filtered, scores>>
           ELSE /\ pc' = "scored"
                /\ scores' = r.out
                /\ filtered' = r.items
    /\ UNCHANGED <<src, periodicity, author, reverse, items, current_date, out>>

\* if scores: print(summary) else: print("No commits to plot")
Report ==
    /\ pc = "scored"
    /\ IF scores # <<>>
       THEN /\ out' = Append(out, SummaryLine(filtered, scores, periodicity))
            /\ pc' = "summarised"
       ELSE /\ out' = Append(out, NoCommits)
            /\ pc' = "done"
    /\ UNCHANGED <<src, periodicity, author, reverse, items, filtered, scores, current_date>>

\* print_bars(scores, args.periodicity, args.colorize): the rows of the
\* buckets, or the entry of the day loop with current_date = last_date
PrintBars ==
    /\ pc = "summarised"
    /\ IF periodicity = "day"
       THEN /\ current_date' = LastDate(scores)
            /\ pc' = "days"
            /\ UNCHANGED out
       ELSE /\ out' = out \o BucketRows(scores)
            /\ pc' = "done"
            /\ UNCHANGED current_date
    /\ UNCHANGED <<src, periodicity, author, reverse, items, filtered, scores>>

\* one iteration of the day loop of print_bars
PrintDay ==
    /\ pc = "days"
    /\ InDayLoop(scores, current_date)
    /\ out' = out \o DayRow(scores, current_date)
    /\ current_date' = NextDay(current_date)
    /\ UNCHANGED <<src, periodicity, author, reverse, pc, items, filtered, scores>>

\* the day loop ends and print_bars returns
PrintDaysEnd ==
    /\ pc = "days"
    /\ ~InDayLoop(scores, current_date)
    /\ pc' = "done"
    /\ current_date' = <<>>
    /\ UNCHANGED <<src, periodicity, author, reverse, items, filtered, scores, out>>

Next == GetLog \/ Filter \/ GetScores \/ Report \/ PrintBars \/ PrintDay \/ PrintDaysEnd

Spec == Init /\ [][Next]_vars

(***************************************************************************)
(* Vocabulary of the properties, defined without the operators of the      *)
(* pipeline                                                                *)
(***************************************************************************)
\* sub occurs in s at some offset
IsSubstring(sub, s) ==
    \E off \in 0..Len(s) :
        /\ off + Len(sub) <= Len(s)
        /\ \A j \in 1..Len(sub) : s[off + j] = sub[j]

\* the record passes the author filter of the run
Passes(rec) == author = <<>> \/ IsSubstring(author, rec.author)

PassingIdx == { i \in 1..Len(items) : Passes(items[i]) }

\* filter has returned
AfterFilter == pc \in {"filtered", "scored", "summarised", "days", "done"}

\* get_scores has returned
AfterScores == pc \in {"scored", "summarised", "days", "done"}

RECURSIVE TotalOf(_, _)
TotalOf(bars, k) == IF k = 0 THEN 0 ELSE bars[k].commits + TotalOf(bars, k - 1)

MinOf(S) == CHOOSE x \in S : \A y \in S : x <= y
MaxOf(S) == CHOOSE x \in S : \A y \in S : x >= y

\* the timestamp order
TsLeq(a, b) == LabelLeq(<<a.y, a.m, a.d, a.t>>, <<b.y, b.m, b.d, b.t>>)

Descending(recs) ==
    \A i \in 1..Len(recs) - 1 : TsLeq(recs[i + 1].timestamp, recs[i].timestamp)

Ascending(recs) ==
    \A i \in 1..Len(recs) - 1 : TsLeq(recs[i].timestamp, recs[i + 1].timestamp)

\* the log source gave well formed lines, newest first
SourceNewestFirst ==
    /\ src.ok
    /\ src.lines # <<>>
    /\ \A i \in 1..Len(src.lines) : src.lines[i].nf = 2 /\ src.lines[i].timestamp.ok
    /\ Descending(src.lines)

Count(recs, r) == Cardinality({ i \in 1..Len(recs) : recs[i] = r })

Summaries == { k \in 1..Len(out) : out[k].kind = "summary" }
Rows == { k \in 1..Len(out) : out[k].kind = "row" }

\* the two timestamps lie in the same calendar period
SamePeriod(a, b, per) ==
    IF per = "day" THEN a.y = b.y /\ a.m = b.m /\ a.d = b.d
    ELSE IF per = "week" THEN Ordinal(a) - Weekday(a) = Ordinal(b) - Weekday(b)
    ELSE IF per = "month" THEN a.y = b.y /\ a.m = b.m
    ELSE a.y = b.y

(***************************************************************************)
(* C1: the commit counts of the buckets filter() returns add up to the     *)
(* number of input records that pass the author filter, and that number    *)
(* is the total of the summary line main() prints.                         *)
(***************************************************************************)
C1_TotalIsPassingRecords ==
    AfterFilter =>
        /\ TotalOf(filtered, Len(filtered)) = Cardinality(PassingIdx)
        /\ \A k \in Summaries : out[k].total = Cardinality(PassingIdx)

\* a finished run whose filter dropped a record and put two records in one
\* bucket, with the summary printed
C1_Witness ==
    /\ pc = "done"
    /\ Summaries # {}
    /\ author # <<>>
    /\ Cardinality(PassingIdx) < Len(items)
    /\ \E k \in 1..Len(filtered) : filtered[k].commits >= 2

(***************************************************************************)
(* C3: every score get_scores computes is (commits - min) / (max - min),   *)
(* min and max taken over the bucket counts and 0; it lies in [0, 1], is 0 *)
(* exactly for a count equal to min and 1 for the largest count; no        *)
(* division by zero happens, and with max = min no score is non-zero.      *)
(***************************************************************************)
C3_ScoresNormalized ==
    /\ pc = "filtered" => ~get_scores(filtered).raised
    /\ AfterScores =>
        LET counts == { filtered[k].commits : k \in 1..Len(filtered) } \cup {0}
            lo == MinOf(counts)
            hi == MaxOf(counts)
        IN  /\ Len(scores) = Len(filtered)
            /\ \A k \in 1..Len(scores) :
                LET sc == scores[k].score
                    c == scores[k].commits
                IN  /\ c = filtered[k].commits
                    /\ sc.den > 0
                    /\ sc.num * (hi - lo) = (c - lo) * sc.den
                    /\ 0 <= sc.num /\ sc.num <= sc.den
                    /\ (sc.num = 0) <=> (c = lo)
                    /\ (c = hi) => (sc.num = sc.den)
            /\ (hi = lo) => \A k \in 1..Len(scores) : scores[k].score.num = 0

\* scored buckets with different counts: one has score 1, one a score
\* strictly between 0 and 1
C3_Witness ==
    /\ pc = "scored"
    /\ \E k \in 1..Len(scores) : scores[k].score.num = scores[k].score.den
    /\ \E k \in 1..Len(scores) :
          0 < scores[k].score.num /\ scores[k].score.num < scores[k].score.den

(***************************************************************************)
(* C6: a record contributes to the result of filter() exactly when the     *)
(* author filter is empty or a substring of its author: every bucket       *)
(* counts the passing records of its label and nothing else, has at least  *)
(* one of them, and every passing record has its bucket.                   *)
(***************************************************************************)
C6_OnlyPassingRecordsCount ==
    AfterFilter =>
        /\ \A k \in 1..Len(filtered) :
              /\ filtered[k].commits >= 1
              /\ filtered[k].commits =
                    Cardinality({ i \in PassingIdx :
                        Label(items[i].timestamp, periodicity) = filtered[k].label })
        /\ \A i \in PassingIdx :
              \E k \in 1..Len(filtered) :
                  filtered[k].label = Label(items[i].timestamp, periodicity)

\* the filter is a proper substring of a counted record's author, and a
\* record that fails the filter has a label of its own, without a bucket
C6_Witness ==
    /\ pc = "filtered"
    /\ author # <<>>
    /\ \E i \in PassingIdx : items[i].author # author
    /\ \E i \in (1..Len(items)) \ PassingIdx :
          \A k \in 1..Len(filtered) :
              filtered[k].label # Label(items[i].timestamp, periodicity)

FirstSeen(p) ==
    MinOf({ i \in PassingIdx : Label(items[i].timestamp, periodicity) = p })

(***************************************************************************)
(* C7: the labels of the buckets of filter() are pairwise distinct and     *)
(* stand in the order in which each label was first seen among the passing *)
(* records; they are not sorted by value, and get_scores keeps the order.  *)
(***************************************************************************)
C7_FirstSeenOrder ==
    AfterFilter =>
        /\ \A k1, k2 \in 1..Len(filtered) :
              k1 < k2 =>
                  /\ filtered[k1].label # filtered[k2].label
                  /\ FirstSeen(filtered[k1].label) < FirstSeen(filtered[k2].label)
        /\ { filtered[k].label : k \in 1..Len(filtered) }
              = { Label(items[i].timestamp, periodicity) : i \in PassingIdx }
        /\ AfterScores => LabelsOf(scores) = LabelsOf(filtered)

\* three buckets whose labels are neither ascending nor descending, scored
C7_Witness ==
    /\ pc = "scored"
    /\ Len(filtered) = 3
    /\ ~LabelLeq(filtered[1].label, filtered[2].label)
    /\ ~LabelLeq(filtered[3].label, filtered[2].label)

(***************************************************************************)
(* C8: from a log source that gives its lines newest first, get_log        *)
(* returns the records in descending timestamp order when reverse is false *)
(* and in ascending order when reverse is true, and in both cases a        *)
(* permutation of the records of the lines.                                *)
(***************************************************************************)
C8_LogOrder ==
    (pc \notin {"start", "error"} /\ SourceNewestFirst) =>
        /\ reverse => Ascending(items)
        /\ ~reverse => Descending(items)
        /\ Len(items) = Len(src.lines)
        /\ \A i \in 1..Len(src.lines) :
              LET r == [timestamp |-> src.lines[i].timestamp,
                        author |-> src.lines[i].author]
              IN  Count(items, r) = Cardinality({ j \in 1..Len(src.lines) :
                        src.lines[j].timestamp = src.lines[i].timestamp
                        /\ src.lines[j].author = src.lines[i].author })

\* a reversed log of three records with three different timestamps
C8_Witness ==
    /\ pc = "logged"
    /\ SourceNewestFirst
    /\ reverse
    /\ Len(items) = 3
    /\ ~TsLeq(items[2].timestamp, items[1].timestamp)
    /\ ~TsLeq(items[3].timestamp, items[2].timestamp)

(***************************************************************************)
(* C9: no stage changes what an earlier stage returned: the steps after    *)
(* get_log leave the record sequence as it is, the steps after filter(),   *)
(* get_scores among them, leave the bucket mapping as it is (no score      *)
(* field is added to it), and the total of the summary line is the total   *)
(* of the mapping filter() produced.                                       *)
(***************************************************************************)
C9_StagesDoNotMutate ==
    [][ /\ pc = "logged" => items' = items
        /\ AfterFilter => (items' = items /\ filtered' = filtered)
        /\ (pc = "scored" /\ pc' = "summarised") =>
              out'[Len(out')].total =
                  TotalOf(filter(items, periodicity, author).bars,
                          Len(filter(items, periodicity, author).bars)) ]_vars

\* get_scores has scored a mapping of two buckets
C9_Witness ==
    /\ pc = "scored"
    /\ Len(scores) >= 2
    /\ Len(filtered) >= 2

RowSeq == SelectSeq(out, LAMBDA o : o.kind = "row")

DayLabels == { scores[k].label : k \in 1..Len(scores) }

EarliestDay == CHOOSE p \in DayLabels : \A q \in DayLabels : LabelLeq(p, q)
LatestDay == CHOOSE p \in DayLabels : \A q \in DayLabels : LabelLeq(q, p)

DayRowsCoverRange ==
    /\ Len(RowSeq) = Ordinal(DateOf(LatestDay)) - Ordinal(DateOf(EarliestDay)) + 1
    /\ \A n \in 1..Len(RowSeq) :
          /\ Ordinal(DateOf(RowSeq[n].label)) = Ordinal(DateOf(EarliestDay)) + n - 1
          /\ RowSeq[n].label \notin DayLabels =>
                (RowSeq[n].num = 0 /\ RowSeq[n].score.num = 0)
          /\ \A k \in 1..Len(scores) :
                scores[k].label = RowSeq[n].label => RowSeq[n].num = scores[k].commits

(***************************************************************************)
(* C2: rendering by day, for records that arrived newest first             *)
(* (reverse = false) or oldest first (reverse = true), print_bars ends     *)
(* having written exactly one row for every calendar day from the earliest *)
(* to the latest bucket label, a day without a bucket with count 0 and an  *)
(* empty bar.                                                              *)
(***************************************************************************)
C2_EveryDayHasARow ==
    (pc = "done" /\ periodicity = "day" /\ scores # <<>> /\ SourceNewestFirst)
        => DayRowsCoverRange

\* the same, for reverse = false alone
C2_EveryDayHasARowNewestFirst ==
    (pc = "done" /\ periodicity = "day" /\ scores # <<>> /\ SourceNewestFirst /\ ~reverse)
        => DayRowsCoverRange

Terminated == pc \in {"done", "error", "crashed"}

NoLogLines == src.ok /\ src.lines = <<>>

NoRecordPasses ==
    /\ src.ok
    /\ src.lines # <<>>
    /\ \A i \in 1..Len(src.lines) :
          /\ src.lines[i].nf = 2
          /\ src.lines[i].timestamp.ok
          /\ ~(author = <<>> \/ IsSubstring(author, src.lines[i].author))

(***************************************************************************)
(* C4: a run that ends up with zero buckets, because the log source gave   *)
(* no commit line at all or because no record passes the author filter,    *)
(* writes the one message 'No commits to plot', no summary line and no     *)
(* row, and does not take the error path.                                  *)
(***************************************************************************)
C4_EmptyResultIsNormal ==
    (Terminated /\ (NoLogLines \/ NoRecordPasses)) => (pc = "done" /\ out = <<NoCommits>>)

\* the same, for the runs whose log has lines
C4_NoRecordPassesIsNormal ==
    (Terminated /\ NoRecordPasses) => (pc = "done" /\ out = <<NoCommits>>)

Malformed(o) == o.nf # 2 \/ ~o.timestamp.ok

(***************************************************************************)
(* C5: a run whose log holds a line that is not two '|' separated fields   *)
(* with a timestamp first never writes a summary line or a row, whatever   *)
(* the periodicity.                                                        *)
(***************************************************************************)
C5_MalformedLineAborts ==
    (src.ok /\ \E i \in 1..Len(src.lines) : Malformed(src.lines[i]))
        => (Summaries = {} /\ Rows = {})

WellFormedItems == \A i \in 1..Len(items) : items[i].timestamp.ok

(***************************************************************************)
(* C10: two records share a bucket of filter() exactly when their          *)
(* timestamps lie in the same calendar period (day, ISO week, month,       *)
(* year): each bucket counts the passing records of the period of its      *)
(* first record, and for input sorted by timestamp the buckets stand in    *)
(* chronological order.                                                    *)
(***************************************************************************)
C10_BucketIsCalendarPeriod ==
    (AfterFilter /\ WellFormedItems) =>
        /\ \A k \in 1..Len(filtered) :
              filtered[k].commits =
                  Cardinality({ i \in PassingIdx :
                      SamePeriod(items[i].timestamp, filtered[k].timestamp, periodicity) })
        /\ Descending(items) => Descending(filtered)
        /\ Ascending(items) => Ascending(filtered)

\* the same, for the periodicities other than week
C10_BucketIsCalendarPeriodButWeek ==
    (AfterFilter /\ WellFormedItems /\ periodicity # "week") =>
        /\ \A k \in 1..Len(filtered) :
              filtered[k].commits =
                  Cardinality({ i \in PassingIdx :
                      SamePeriod(items[i].timestamp, filtered[k].timestamp, periodicity) })
        /\ Descending(items) => Descending(filtered)
        /\ Ascending(items) => Ascending(filtered)

====
